---- MODULE Spec2Model ----
(***************************************************************************)
(* The metrics subsystem of LibMultiLabel (libmultilabel/linear/metrics.py)*)
(* as a state machine: one MetricCollection built by get_metrics, fed by   *)
(* update, read by compute, cleared by reset, and the one-shot             *)
(* compute_metrics.                                                        *)
(*                                                                         *)
(* Conventions of the model.                                               *)
(*  - A Python string is a sequence of one-character strings, so that      *)
(*    slicing, re.match, int() and lower() are computed, not assumed.      *)
(*  - A float is a rational [n, d] with d > 0, or one of the IEEE         *)
(*    specials with d = 0: NaN (n = 0), +inf (n = 1), and the largest      *)
(*    finite double (n = 2, what nan_to_num makes of +inf by default).     *)
(*    Every float operation rounds its exact result to the nearest binary  *)
(*    float of MantissaBits significant bits, ties to even, as IEEE 754    *)
(*    does at 53 bits.  The small integers of the model are exact.         *)
(*  - A method call is an operator returning [self, ret, exc]: the         *)
(*    object after the call, the value returned and the exception raised.  *)
(*  - np.argpartition breaks ties in a fixed, input-determined way; the    *)
(*    model fixes it as "the later column wins".                           *)
(***************************************************************************)
EXTENDS Integers, Sequences, FiniteSets, TLC

(* ---------------------------- bounds ---------------------------------- *)

\* Rows accumulated by update calls since construction or the last reset.
MaxRows == 2

\* update calls since construction or the last reset.
MaxUpdates == 2

\* Significant bits of a float.  numpy's float64 has 53; thirds, the
\* quotients of P@3 and RP@3, round in the same direction at every odd width.
MantissaBits == 5

\* Column indices of every prediction matrix the model feeds.
Cols == 1 .. 3

NumCols == Cardinality(Cols)

\* Rows of decision values: distinct scores, and a tie below the top score.
PredRows == {<<2, 1, 0>>, <<0, 0, 1>>}

\* Rows of 0/1 labels: no label, two labels, every label.
TargetRows == {<<0, 0, 0>>, <<1, 1, 0>>, <<1, 1, 1>>}

\* Values of metric_threshold.
Thresholds == {0}

\* F(v), with v evaluated once however often F uses it.
Bind(v, F(_)) == CHOOSE y \in {F(x) : x \in {v}} : TRUE

(* ---------------------------- strings --------------------------------- *)

Digits == {"0", "1", "2", "3", "4", "5", "6", "7", "8", "9"}

DigitValue(c) ==
    CASE c = "0" -> 0 [] c = "1" -> 1 [] c = "2" -> 2 [] c = "3" -> 3
      [] c = "4" -> 4 [] c = "5" -> 5 [] c = "6" -> 6 [] c = "7" -> 7
      [] c = "8" -> 8 [] c = "9" -> 9

\* str.lower() on one character (the letters the metric names use).
LowerChar(c) ==
    CASE c = "A" -> "a" [] c = "M" -> "m" [] c = "F" -> "f"
      [] c = "P" -> "p" [] c = "R" -> "r" [] c = "B" -> "b"
      [] OTHER -> c

lower(s) == [i \in 1 .. Len(s) |-> LowerChar(s[i])]

\* s[k:] for k >= 0, with k counted from 0 as in Python.
SliceFrom(s, k) == IF k >= Len(s) THEN <<>> ELSE SubSeq(s, k + 1, Len(s))

\* s[:-k] for k > 0.
SliceDropLast(s, k) == IF k >= Len(s) THEN <<>> ELSE SubSeq(s, 1, Len(s) - k)

RECURSIVE lstrip(_)
lstrip(s) == IF s # <<>> /\ Head(s) = " " THEN lstrip(Tail(s)) ELSE s

RECURSIVE rstrip(_)
rstrip(s) ==
    IF s # <<>> /\ s[Len(s)] = " " THEN rstrip(SubSeq(s, 1, Len(s) - 1)) ELSE s

RECURSIVE DigitsValue(_, _)
DigitsValue(s, acc) ==
    IF s = <<>> THEN acc ELSE DigitsValue(Tail(s), 10 * acc + DigitValue(Head(s)))

NoExc == [type |-> "none", msg |-> "", arg |-> <<>>]

Raise(type, msg, arg) == [type |-> type, msg |-> msg, arg |-> arg]

\* int(s): surrounding blanks are stripped, then every character must be a
\* digit; anything else is ValueError("invalid literal for int() ...: 's'").
int(s) ==
    Bind(rstrip(lstrip(s)),
         LAMBDA t :
           IF t # <<>> /\ \A i \in 1 .. Len(t) : t[i] \in Digits
           THEN [ret |-> DigitsValue(t, 0), exc |-> NoExc]
           ELSE [ret |-> 0,
                 exc |-> Raise("ValueError",
                               "invalid literal for int() with base 10: ", s)])

\* re.match(prefix + '\d+', s): the pattern is anchored at the start only.
re_match(prefix, s) ==
    /\ Len(s) > Len(prefix)
    /\ SubSeq(s, 1, Len(prefix)) = prefix
    /\ s[Len(prefix) + 1] \in Digits

(* ---------------------------- numbers --------------------------------- *)

RECURSIVE Gcd(_, _)
Gcd(a, b) == IF b = 0 THEN a ELSE Bind(a % b, LAMBDA r : Gcd(b, r))

NaN == [n |-> 0, d |-> 0]

PosInf == [n |-> 1, d |-> 0]

LargestFinite == [n |-> 2, d |-> 0]

IsNaN(x) == x = NaN

\* The exact n/d of two non-negative integers, d > 0, in lowest terms.
Rat(n, d) ==
    Bind(<<n, d>>,
         LAMBDA p : Bind(Gcd(p[1], p[2]),
                         LAMBDA g : [n |-> p[1] \div g, d |-> p[2] \div g]))

Float(i) == [n |-> i, d |-> 1]

IsFinite(x) == x.d > 0

\* num/den scaled by powers of two into [2^(MantissaBits-1), 2^MantissaBits):
\* <<num', den', e>> with num/den = (num'/den') * 2^e.
RECURSIVE Normalize(_, _, _)
Normalize(num, den, e) ==
    Bind(<<num, den, e>>,
         LAMBDA t :
           IF t[1] >= (2 ^ MantissaBits) * t[2]
           THEN Normalize(t[1], 2 * t[2], t[3] + 1)
           ELSE IF t[1] < (2 ^ (MantissaBits - 1)) * t[2]
           THEN Normalize(2 * t[1], t[2], t[3] - 1)
           ELSE t)

\* The float nearest to the exact x, ties to the even mantissa.
Round(x) ==
    IF ~IsFinite(x) \/ x.n = 0 THEN x
    ELSE Bind(Normalize(x.n, x.d, 0),
              LAMBDA t :
                LET q == t[1] \div t[2]
                    r == t[1] % t[2]
                    m == IF 2 * r > t[2] \/ (2 * r = t[2] /\ q % 2 = 1)
                         THEN q + 1 ELSE q
                IN  IF t[3] >= 0 THEN Rat(m * (2 ^ t[3]), 1)
                    ELSE Rat(m, 2 ^ (0 - t[3])))

\* x + y on floats.
FAdd(x, y) ==
    Bind(<<x, y>>,
         LAMBDA p :
           IF IsNaN(p[1]) \/ IsNaN(p[2]) THEN NaN
           ELSE IF ~IsFinite(p[1]) THEN p[1]
           ELSE IF ~IsFinite(p[2]) THEN p[2]
           ELSE Round(Rat(p[1].n * p[2].d + p[2].n * p[1].d, p[1].d * p[2].d)))

\* x * y on floats.
FMul(x, y) ==
    Bind(<<x, y>>,
         LAMBDA p :
           IF IsNaN(p[1]) \/ IsNaN(p[2]) THEN NaN
           ELSE IF ~IsFinite(p[1]) \/ ~IsFinite(p[2])
                THEN (IF p[1].n = 0 \/ p[2].n = 0 THEN NaN ELSE PosInf)
           ELSE Round(Rat(p[1].n * p[2].n, p[1].d * p[2].d)))

\* x / y on numpy floats with the division errors not raised (np.seterr
\* 'warn' or 'ignore'): 0/0 is NaN, x/0 is +inf.
FDiv(x, y) ==
    Bind(<<x, y>>,
         LAMBDA p :
           IF IsNaN(p[1]) \/ IsNaN(p[2]) THEN NaN
           ELSE IF ~IsFinite(p[2]) THEN (IF IsFinite(p[1]) THEN Float(0) ELSE NaN)
           ELSE IF ~IsFinite(p[1]) THEN PosInf
           ELSE IF p[2].n = 0 THEN (IF p[1].n = 0 THEN NaN ELSE PosInf)
           ELSE Round(Rat(p[1].n * p[2].d, p[1].d * p[2].n)))

\* np.nan_to_num(x, posinf = p): NaN becomes 0.0 and +inf becomes p.
nan_to_num(x, posinf) ==
    Bind(x, LAMBDA v : IF IsNaN(v) THEN Float(0) ELSE IF v = PosInf THEN posinf ELSE v)

\* The entries 1 .. i of xs added in order, NaN counting as 0.
RECURSIVE nansum_from(_, _)
nansum_from(xs, i) ==
    IF i = 0 THEN Float(0)
    ELSE FAdd(nansum_from(xs, i - 1), IF IsNaN(xs[i]) THEN Float(0) ELSE xs[i])

\* np.nansum over a sequence of floats: NaN counts as 0.
nansum(xs) == Bind(xs, LAMBDA v : nansum_from(v, Len(v)))

RECURSIVE sum_from(_, _)
sum_from(xs, i) == IF i > Len(xs) THEN 0 ELSE xs[i] + sum_from(xs, i + 1)

\* The sum of a sequence of integers.
SumSeq(xs) == Bind(xs, LAMBDA v : sum_from(v, 1))

Min(a, b) == Bind(<<a, b>>, LAMBDA p : IF p[1] <= p[2] THEN p[1] ELSE p[2])

(* ---------------------------- matrices -------------------------------- *)

\* An array of shape (nrow, ncol); a holds the rows.
Matrix(rows, ncol) == [nrow |-> Len(rows), ncol |-> ncol, a |-> rows]

shape(m) == <<m.nrow, m.ncol>>

\* Column j comes before column i in the partitioned row.
Before(row, j, i) == row[j] < row[i] \/ (row[j] = row[i] /\ j < i)

\* np.argpartition(preds, -k)[:, -k:] on one row: the k columns that end up
\* last, i.e. the k highest scores.
top_k_ind(row, k) ==
    {j \in 1 .. Len(row) :
        Cardinality({i \in 1 .. Len(row) : Before(row, j, i)}) < k}

\* np.take_along_axis(target, top_k_ind, -1).sum(-1) on one row.
num_relevant(prow, trow, k) ==
    SumSeq([j \in 1 .. Len(trow) |-> IF j \in top_k_ind(prow, k) THEN trow[j] ELSE 0])

\* np.argmax on one row: the first column holding the maximum.
argmax(row) ==
    CHOOSE j \in 1 .. Len(row) :
        /\ \A i \in 1 .. Len(row) : row[i] <= row[j]
        /\ \A i \in 1 .. j - 1 : row[i] < row[j]

(* ---------------------------- Python values --------------------------- *)

\* The Python int 0 that __init__ and reset store in score, tp, fp and fn.
PyInt(i) == [ty |-> "int", v |-> Float(i)]

\* A numpy float64 scalar.
Float64(x) == [ty |-> "float64", v |-> x]

\* score += x with x a numpy float64: the sum is a numpy float64.
iadd_float64(score, x) == Float64(FAdd(score.v, x))

\* The Python int 0 held in one of F1's counters.
IntCounter == [ty |-> "int", v |-> <<0>>]

\* counter += arr with arr an integer ndarray of one entry per column: the
\* int 0 plus an array is the array, an array plus an array is their
\* elementwise sum.
iadd_ndarray(counter, arr) ==
    Bind(arr,
         LAMBDA a :
           [ty |-> "ndarray",
            v  |-> IF counter.ty = "int"
                   THEN [c \in 1 .. Len(a) |-> counter.v[1] + a[c]]
                   ELSE [c \in 1 .. Len(a) |-> counter.v[c] + a[c]]])

Result(self, ret, exc) == [self |-> self, ret |-> ret, exc |-> exc]

\* What a call that returns None, or raises, hands back.
None == [n |-> -1, d |-> 0]

AssertionError == Raise("AssertionError", "", <<>>)

ZeroDivisionError == Raise("ZeroDivisionError", "division by zero", <<>>)

\* np.argpartition(preds, -top_k) raises when top_k exceeds the columns.
KthOutOfBounds == Raise("ValueError", "kth out of bounds", <<>>)

\* score / num_sample of RPrecision.compute and Precision.compute: two
\* A division guarded against an empty accumulator: 0.0 for no sample.
true_divide_guarded(score, num_sample) ==
    IF num_sample = 0 THEN [ret |-> Float(0), exc |-> NoExc]
    ELSE [ret |-> FDiv(score.v, Float(num_sample)), exc |-> NoExc]

\* Python ints divide with ZeroDivisionError on 0, a numpy float64 divides to
\* NaN or inf.
true_divide(score, num_sample) ==
    IF score.ty = "int"
    THEN (IF num_sample = 0
          THEN [ret |-> None, exc |-> ZeroDivisionError]
          ELSE [ret |-> FDiv(score.v, Float(num_sample)), exc |-> NoExc])
    ELSE [ret |-> FDiv(score.v, Float(num_sample)), exc |-> NoExc]

(* ---------------------------- RPrecision ------------------------------ *)

RPrecision_init(top_k) ==
    [cls |-> "RPrecision", top_k |-> top_k, score |-> PyInt(0), num_sample |-> 0]

\* The row's term divided by top_k alone, not by min(top_k, labels).
RPrecision_row_over_top_k(prow, trow, top_k) ==
    nan_to_num(FDiv(Float(num_relevant(prow, trow, top_k)), Float(top_k)), Float(0))

\* One row's term of the sum RPrecision.update adds to score.
RPrecision_row(prow, trow, top_k) ==
    nan_to_num(FDiv(Float(num_relevant(prow, trow, top_k)),
                    Float(Min(top_k, SumSeq(trow)))),
               Float(0))

\* .sum() over the terms of rows 1 .. i, added in row order.
RECURSIVE RPrecision_rows(_, _, _, _)
RPrecision_rows(preds, target, top_k, i) ==
    IF i = 0 THEN Float(0)
    ELSE FAdd(RPrecision_rows(preds, target, top_k, i - 1),
              RPrecision_row(preds.a[i], target.a[i], top_k))

RPrecision_update(self, preds, target) ==
    IF shape(preds) # shape(target) THEN Result(self, None, AssertionError)
    ELSE IF self.top_k > preds.ncol THEN Result(self, None, KthOutOfBounds)
    ELSE Result([self EXCEPT
                    !.score = iadd_float64(self.score,
                                  RPrecision_rows(preds, target, self.top_k,
                                                  preds.nrow)),
                    !.num_sample = self.num_sample + preds.nrow],
                None, NoExc)

RPrecision_compute(self) ==
    Bind(true_divide(self.score, self.num_sample),
         LAMBDA q : Result(self, q.ret, q.exc))

RPrecision_reset(self) ==
    Result([self EXCEPT !.score = PyInt(0), !.num_sample = 0], None, NoExc)

(* ---------------------------- Precision ------------------------------- *)

\* Precision.__init__ keeps top_k and the two sums; num_classes is not kept.
Precision_init(num_classes, average, top_k) ==
    IF average # <<"s", "a", "m", "p", "l", "e", "s">>
    THEN Result([cls |-> "Precision"], None,
                Raise("ValueError", "unsupported average", <<>>))
    ELSE Result([cls |-> "Precision", top_k |-> top_k, score |-> PyInt(0),
                 num_sample |-> 0],
                None, NoExc)

\* np.take_along_axis(target, top_k_ind, -1).sum(): over the whole batch.
RECURSIVE Precision_relevant(_, _, _, _)
Precision_relevant(preds, target, top_k, i) ==
    IF i > preds.nrow THEN 0
    ELSE num_relevant(preds.a[i], target.a[i], top_k)
         + Precision_relevant(preds, target, top_k, i + 1)

\* Precision.update that counts the call, not the rows of the batch.
Precision_update_counting_calls(self, preds, target) ==
    IF shape(preds) # shape(target) THEN Result(self, None, AssertionError)
    ELSE IF self.top_k > preds.ncol THEN Result(self, None, KthOutOfBounds)
    ELSE Result([self EXCEPT
                    !.score = iadd_float64(self.score,
                                  FDiv(Float(Precision_relevant(preds, target, self.top_k, 1)),
                                       Float(self.top_k))),
                    !.num_sample = self.num_sample + 1],
                None, NoExc)

\* Precision.update that adds the hits without dividing them by top_k.
Precision_update_undivided(self, preds, target) ==
    IF shape(preds) # shape(target) THEN Result(self, None, AssertionError)
    ELSE IF self.top_k > preds.ncol THEN Result(self, None, KthOutOfBounds)
    ELSE Result([self EXCEPT
                    !.score = iadd_float64(self.score,
                                  Float(Precision_relevant(preds, target, self.top_k, 1))),
                    !.num_sample = self.num_sample + preds.nrow],
                None, NoExc)

Precision_update(self, preds, target) ==
    IF shape(preds) # shape(target) THEN Result(self, None, AssertionError)
    ELSE IF self.top_k > preds.ncol THEN Result(self, None, KthOutOfBounds)
    ELSE Result([self EXCEPT
                    !.score = iadd_float64(self.score,
                                  FDiv(Float(Precision_relevant(preds, target, self.top_k, 1)),
                                       Float(self.top_k))),
                    !.num_sample = self.num_sample + preds.nrow],
                None, NoExc)

\* Precision.compute that also clears the sums it has read.
Precision_compute_clearing(self) ==
    Bind(true_divide(self.score, self.num_sample),
         LAMBDA q : Result([self EXCEPT !.score = PyInt(0), !.num_sample = 0],
                           q.ret, q.exc))

Precision_compute(self) ==
    Bind(true_divide(self.score, self.num_sample),
         LAMBDA q : Result(self, q.ret, q.exc))

Precision_reset(self) ==
    Result([self EXCEPT !.score = PyInt(0), !.num_sample = 0], None, NoExc)

(* ---------------------------- F1 -------------------------------------- *)

s_macro == <<"m", "a", "c", "r", "o">>

s_micro == <<"m", "i", "c", "r", "o">>

s_another_macro == <<"a", "n", "o", "t", "h", "e", "r", "-", "m", "a", "c", "r", "o">>

F1_init(num_classes, metric_threshold, average, multiclass) ==
    IF average \notin {s_macro, s_micro, s_another_macro}
    THEN Result([cls |-> "F1"], None, Raise("ValueError", "unsupported average", <<>>))
    ELSE Result([cls |-> "F1", num_classes |-> num_classes,
                 metric_threshold |-> metric_threshold, average |-> average,
                 multiclass |-> multiclass,
                 tp |-> IntCounter, fp |-> IntCounter, fn |-> IntCounter],
                None, NoExc)

\* Binarization that takes a score equal to the threshold as positive.
F1_binarize_inclusive(self, prow, c) ==
    IF self.multiclass
    THEN (IF argmax(prow) = c THEN 1 ELSE 0)
    ELSE (IF prow[c] >= self.metric_threshold THEN 1 ELSE 0)

\* Binarization that, in multiclass mode, marks every column holding the
\* maximum of the row.
F1_binarize_all_maxima(self, prow, c) ==
    IF self.multiclass
    THEN (IF prow[c] = prow[argmax(prow)] THEN 1 ELSE 0)
    ELSE (IF prow[c] > self.metric_threshold THEN 1 ELSE 0)

\* The binarized prediction of row prow at column c: the one-hot argmax in
\* multiclass mode, preds > metric_threshold otherwise.
F1_binarize(self, prow, c) ==
    IF self.multiclass
    THEN (IF argmax(prow) = c THEN 1 ELSE 0)
    ELSE (IF prow[c] > self.metric_threshold THEN 1 ELSE 0)

\* np.logical_and(target == t, preds == p).sum(axis=0): per column, the rows
\* whose target is t and whose binarized prediction is p.
F1_count(self, preds, target, t, p) ==
    [c \in 1 .. preds.ncol |->
        Cardinality({i \in 1 .. preds.nrow :
                        target.a[i][c] = t /\ F1_binarize(self, preds.a[i], c) = p})]

F1_update(self, preds, target) ==
    IF shape(preds) # shape(target) THEN Result(self, None, AssertionError)
    ELSE Result([self EXCEPT
                    !.tp = iadd_ndarray(self.tp, F1_count(self, preds, target, 1, 1)),
                    !.fn = iadd_ndarray(self.fn, F1_count(self, preds, target, 1, 0)),
                    !.fp = iadd_ndarray(self.fp, F1_count(self, preds, target, 0, 1))],
                None, NoExc)

\* The three branches of F1.compute on ndarray counters: every division is
\* elementwise and 0/0 is NaN.
F1_score_ndarray(self) ==
    LET n       == Len(self.tp.v)
        tp      == self.tp.v
        fp      == self.fp.v
        fn      == self.fn.v
        classes == Float(self.num_classes)
    IN  IF self.average = s_macro
        THEN FDiv(nansum([c \in 1 .. n |->
                            FDiv(Float(2 * tp[c]), Float(2 * tp[c] + fp[c] + fn[c]))]),
                  classes)
        ELSE IF self.average = s_micro
        THEN nan_to_num(FDiv(Float(2 * SumSeq(tp)),
                             Float(SumSeq([c \in 1 .. n |-> 2 * tp[c] + fp[c] + fn[c]]))),
                        LargestFinite)
        ELSE Bind(<<FDiv(nansum([c \in 1 .. n |->
                                   FDiv(Float(tp[c]), Float(tp[c] + fp[c]))]),
                         classes),
                    FDiv(nansum([c \in 1 .. n |->
                                   FDiv(Float(tp[c]), Float(tp[c] + fn[c]))]),
                         classes)>>,
                  LAMBDA m :
                    LET macro_prec   == m[1]
                        macro_recall == m[2]
                    IN  nan_to_num(FDiv(FMul(Float(2), FMul(macro_prec, macro_recall)),
                                        FAdd(macro_prec, macro_recall)),
                                   LargestFinite))

\* The same branches on the Python ints of a counter never updated: macro
\* and another-macro divide two Python ints, which raises on a zero divisor;
\* micro goes through np.sum, whose numpy integers divide to NaN.
F1_score_int(self) ==
    LET tp == self.tp.v[1]
        fp == self.fp.v[1]
        fn == self.fn.v[1]
    IN  IF self.average = s_macro
        THEN (IF 2 * tp + fp + fn = 0
              THEN [ret |-> None, exc |-> ZeroDivisionError]
              ELSE [ret |-> FDiv(nansum(<<FDiv(Float(2 * tp), Float(2 * tp + fp + fn))>>),
                                 Float(self.num_classes)),
                    exc |-> NoExc])
        ELSE IF self.average = s_micro
        THEN [ret |-> nan_to_num(FDiv(Float(2 * tp), Float(2 * tp + fp + fn)),
                                 LargestFinite),
              exc |-> NoExc]
        ELSE (IF tp + fp = 0 \/ tp + fn = 0
              THEN [ret |-> None, exc |-> ZeroDivisionError]
              ELSE LET macro_prec ==
                           FDiv(nansum(<<FDiv(Float(tp), Float(tp + fp))>>),
                                Float(self.num_classes))
                       macro_recall ==
                           FDiv(nansum(<<FDiv(Float(tp), Float(tp + fn))>>),
                                Float(self.num_classes))
                   IN  [ret |-> nan_to_num(
                                    FDiv(FMul(Float(2), FMul(macro_prec, macro_recall)),
                                         FAdd(macro_prec, macro_recall)),
                                    LargestFinite),
                        exc |-> NoExc])

\* F1.compute under the floating-point error setting seterr: the setting is
\* switched to 'ignore' on entry and set back on the way to the return
\* statement, which a raised exception never reaches.
F1_compute(self, seterr) ==
    LET prev_settings == seterr
    IN  Bind(IF self.tp.ty = "int"
             THEN F1_score_int(self)
             ELSE [ret |-> F1_score_ndarray(self), exc |-> NoExc],
             LAMBDA q :
               [self |-> self, ret |-> q.ret, exc |-> q.exc,
                seterr |-> IF q.exc = NoExc THEN prev_settings ELSE "ignore"])

\* F1.reset that clears tp and fp and forgets fn.
F1_reset_keeping_fn(self) ==
    Result([self EXCEPT !.tp = IntCounter, !.fp = IntCounter], None, NoExc)

F1_reset(self) ==
    Result([self EXCEPT !.tp = IntCounter, !.fp = IntCounter, !.fn = IntCounter],
           None, NoExc)

(* ---------------------------- MetricCollection ------------------------ *)

\* A dict in insertion order: keys lists the names, metrics maps each to its
\* accumulator.
EmptyDict == [keys |-> <<>>, metrics |-> <<>>]

\* d[k] = v: a new key goes last, a key already present keeps its place.
dict_setitem(d, k, v) ==
    IF k \in DOMAIN d.metrics
    THEN [d EXCEPT !.metrics = (k :> v) @@ d.metrics]
    ELSE [keys |-> Append(d.keys, k), metrics |-> (k :> v) @@ d.metrics]

MetricCollection_init(metrics) == metrics

\* metric.update(preds, target) on whichever accumulator metric is.
Metric_update(metric, preds, target) ==
    CASE metric.cls = "RPrecision" -> RPrecision_update(metric, preds, target)
      [] metric.cls = "Precision"  -> Precision_update(metric, preds, target)
      [] metric.cls = "F1"         -> F1_update(metric, preds, target)

\* metric.compute(): only F1 touches the floating-point error setting.
Metric_compute(metric, seterr) ==
    CASE metric.cls = "RPrecision" ->
            Bind(RPrecision_compute(metric),
                 LAMBDA r : [self |-> r.self, ret |-> r.ret, exc |-> r.exc,
                             seterr |-> seterr])
      [] metric.cls = "Precision" ->
            Bind(Precision_compute(metric),
                 LAMBDA r : [self |-> r.self, ret |-> r.ret, exc |-> r.exc,
                             seterr |-> seterr])
      [] metric.cls = "F1" -> F1_compute(metric, seterr)

Metric_reset(metric) ==
    CASE metric.cls = "RPrecision" -> RPrecision_reset(metric)
      [] metric.cls = "Precision"  -> Precision_reset(metric)
      [] metric.cls = "F1"         -> F1_reset(metric)

\* The loop of MetricCollection.update from the i-th member on: the first
\* member that raises ends the loop, the members before it stay updated.
\* done counts the members whose update returned.
RECURSIVE update_loop(_, _, _, _)
update_loop(self, i, preds, target) ==
    IF i > Len(self.keys)
    THEN [self |-> self, ret |-> None, exc |-> NoExc, done |-> i - 1]
    ELSE Bind(Metric_update(self.metrics[self.keys[i]], preds, target),
              LAMBDA r :
                Bind([self EXCEPT !.metrics[self.keys[i]] = r.self],
                     LAMBDA next :
                       IF r.exc # NoExc
                       THEN [self |-> next, ret |-> None, exc |-> r.exc, done |-> i - 1]
                       ELSE update_loop(next, i + 1, preds, target)))

\* MetricCollection.update without its own shape assertion.
MetricCollection_update_unchecked(self, preds, target) ==
    update_loop(self, 1, preds, target)

MetricCollection_update(self, preds, target) ==
    IF shape(preds) # shape(target)
    THEN [self |-> self, ret |-> None, exc |-> AssertionError, done |-> 0]
    ELSE update_loop(self, 1, preds, target)

\* What MetricCollection.compute hands back: a dict of name -> value, or
\* nothing when a member raised.
NoDict == [kind |-> "None", val |-> <<>>]

Dict(f) == [kind |-> "dict", val |-> f]

RECURSIVE compute_loop(_, _, _, _)
compute_loop(self, i, ret, seterr) ==
    IF i > Len(self.keys)
    THEN [self |-> self, ret |-> Dict(ret), exc |-> NoExc, seterr |-> seterr]
    ELSE Bind(Metric_compute(self.metrics[self.keys[i]], seterr),
              LAMBDA r :
                Bind([self EXCEPT !.metrics[self.keys[i]] = r.self],
                     LAMBDA next :
                       IF r.exc # NoExc
                       THEN [self |-> next, ret |-> NoDict, exc |-> r.exc,
                             seterr |-> r.seterr]
                       ELSE Bind((self.keys[i] :> r.ret) @@ ret,
                                 LAMBDA ret1 :
                                   compute_loop(next, i + 1, ret1, r.seterr))))

MetricCollection_compute(self, seterr) == compute_loop(self, 1, <<>>, seterr)

RECURSIVE reset_loop(_, _)
reset_loop(self, i) ==
    IF i > Len(self.keys) THEN self
    ELSE Bind([self EXCEPT !.metrics[self.keys[i]] =
                              Metric_reset(self.metrics[self.keys[i]]).self],
              LAMBDA next : reset_loop(next, i + 1))

MetricCollection_reset(self) == Result(reset_loop(self, 1), None, NoExc)

(* ---------------------------- get_metrics ----------------------------- *)

s_samples == <<"s", "a", "m", "p", "l", "e", "s">>

s_Another_Macro_F1 ==
    <<"A", "n", "o", "t", "h", "e", "r", "-", "M", "a", "c", "r", "o", "-", "F", "1">>

s_Macro_F1 == <<"M", "a", "c", "r", "o", "-", "F", "1">>

s_Micro_F1 == <<"M", "i", "c", "r", "o", "-", "F", "1">>

\* get_metrics whose RP@<int> branch builds a Precision.
get_metric_rp_as_p(metric, metric_threshold, num_classes, multiclass) ==
    IF re_match(<<"P", "@">>, metric)
    THEN Bind(int(SliceFrom(metric, 2)),
              LAMBDA k : IF k.exc # NoExc THEN Result(None, None, k.exc)
                         ELSE Precision_init(num_classes, s_samples, k.ret))
    ELSE IF re_match(<<"R", "P", "@">>, metric)
    THEN Bind(int(SliceFrom(metric, 3)),
              LAMBDA k : IF k.exc # NoExc THEN Result(None, None, k.exc)
                         ELSE Precision_init(num_classes, s_samples, k.ret))
    ELSE IF metric \in {s_Another_Macro_F1, s_Macro_F1, s_Micro_F1}
    THEN F1_init(num_classes, metric_threshold, lower(SliceDropLast(metric, 3)),
                 multiclass)
    ELSE Result(None, None, Raise("ValueError", "invalid metric: ", metric))

\* One turn of the loop of get_metrics: the accumulator built for the name
\* metric, or the exception raised on the way.
get_metric(metric, metric_threshold, num_classes, multiclass) ==
    IF re_match(<<"P", "@">>, metric)
    THEN Bind(int(SliceFrom(metric, 2)),
              LAMBDA k : IF k.exc # NoExc THEN Result(None, None, k.exc)
                         ELSE Precision_init(num_classes, s_samples, k.ret))
    ELSE IF re_match(<<"R", "P", "@">>, metric)
    THEN Bind(int(SliceFrom(metric, 3)),
              LAMBDA k : IF k.exc # NoExc THEN Result(None, None, k.exc)
                         ELSE Result(RPrecision_init(k.ret), None, NoExc))
    ELSE IF metric \in {s_Another_Macro_F1, s_Macro_F1, s_Micro_F1}
    THEN F1_init(num_classes, metric_threshold, lower(SliceDropLast(metric, 3)),
                 multiclass)
    ELSE Result(None, None, Raise("ValueError", "invalid metric: ", metric))

RECURSIVE get_metrics_loop(_, _, _, _, _, _)
get_metrics_loop(metrics, i, metric_threshold, monitor_metrics, num_classes, multiclass) ==
    IF i > Len(monitor_metrics)
    THEN [ret |-> MetricCollection_init(metrics), exc |-> NoExc]
    ELSE Bind(get_metric(monitor_metrics[i], metric_threshold, num_classes,
                         multiclass),
              LAMBDA r :
                IF r.exc # NoExc THEN [ret |-> EmptyDict, exc |-> r.exc]
                ELSE Bind(dict_setitem(metrics, monitor_metrics[i], r.self),
                          LAMBDA next :
                            get_metrics_loop(next, i + 1, metric_threshold,
                                             monitor_metrics, num_classes, multiclass)))

\* get_metrics: the collection, or the first exception (and then no
\* collection at all).
get_metrics(metric_threshold, monitor_metrics, num_classes, multiclass) ==
    get_metrics_loop(EmptyDict, 1, metric_threshold, monitor_metrics, num_classes,
                     multiclass)

(* ---------------------------- compute_metrics ------------------------- *)

\* compute_metrics that takes num_classes from preds.shape[0], the rows.
compute_metrics_by_rows(preds, target, metric_threshold, monitor_metrics, multiclass, seterr) ==
    IF shape(preds) # shape(target)
    THEN [ret |-> NoDict, exc |-> AssertionError, seterr |-> seterr]
    ELSE Bind(get_metrics(metric_threshold, monitor_metrics, preds.nrow, multiclass),
              LAMBDA metric :
                IF metric.exc # NoExc
                THEN [ret |-> NoDict, exc |-> metric.exc, seterr |-> seterr]
                ELSE Bind(MetricCollection_update(metric.ret, preds, target),
                          LAMBDA u :
                            IF u.exc # NoExc
                            THEN [ret |-> NoDict, exc |-> u.exc, seterr |-> seterr]
                            ELSE Bind(MetricCollection_compute(u.self, seterr),
                                      LAMBDA c :
                                        [ret |-> c.ret, exc |-> c.exc,
                                         seterr |-> c.seterr])))

compute_metrics(preds, target, metric_threshold, monitor_metrics, multiclass, seterr) ==
    IF shape(preds) # shape(target)
    THEN [ret |-> NoDict, exc |-> AssertionError, seterr |-> seterr]
    ELSE Bind(get_metrics(metric_threshold, monitor_metrics, preds.ncol, multiclass),
              LAMBDA metric :
                IF metric.exc # NoExc
                THEN [ret |-> NoDict, exc |-> metric.exc, seterr |-> seterr]
                ELSE Bind(MetricCollection_update(metric.ret, preds, target),
                          LAMBDA u :
                            IF u.exc # NoExc
                            THEN [ret |-> NoDict, exc |-> u.exc, seterr |-> seterr]
                            ELSE Bind(MetricCollection_compute(u.self, seterr),
                                      LAMBDA c :
                                        [ret |-> c.ret, exc |-> c.exc,
                                         seterr |-> c.seterr])))

(* ---------------------------- inputs ---------------------------------- *)

P_1 == <<"P", "@", "1">>

P_2 == <<"P", "@", "2">>

P_3 == <<"P", "@", "3">>

P_4 == <<"P", "@", "4">>

RP_1 == <<"R", "P", "@", "1">>

RP_2 == <<"R", "P", "@", "2">>

RP_3 == <<"R", "P", "@", "3">>

Bogus_1 == <<"B", "o", "g", "u", "s", "@", "1">>

\* "P@1 " and "P@1x": a valid name followed by one more character.
P_1_blank == <<"P", "@", "1", " ">>

P_1_x == <<"P", "@", "1", "x">>

\* The monitor_metrics lists get_metrics is called with.
MonitorLists ==
    { <<P_3, RP_2, s_Macro_F1, s_Micro_F1, s_Another_Macro_F1>>,
      <<s_Macro_F1, P_4>>,
      <<RP_1, P_2, RP_1>>,
      <<P_1, RP_2, s_Macro_F1, Bogus_1>>,
      <<P_1_blank>>,
      <<P_1_x>>,
      <<>> }

\* The matrices of r rows drawn from Rows, NumCols wide.
Matrices(Rows, r) == {Matrix(rows, NumCols) : rows \in [1 .. r -> Rows]}

\* The batches update is called with: decision values and 0/1 labels of the
\* same shape, of 0 to MaxRows rows.
Batches ==
    UNION {{[preds |-> p, target |-> t] :
                p \in Matrices(PredRows, r), t \in Matrices(TargetRows, r)} :
           r \in 0 .. MaxRows}

\* Batches whose two shapes differ: a target with no row, or one column short.
MismatchedBatches ==
    {[preds |-> p, target |-> t] :
        p \in Matrices(PredRows, 1),
        t \in Matrices(TargetRows, 0)
              \cup {Matrix(<<SubSeq(row, 1, NumCols - 1)>>, NumCols - 1) :
                        row \in TargetRows}}

(* ---------------------------- state ----------------------------------- *)

VARIABLES
    collection,  \* the MetricCollection get_metrics returned (EmptyDict before)
    built,       \* get_metrics has returned a collection
    config,      \* the arguments of the last get_metrics call
    seterr,      \* numpy's floating-point error setting (np.seterr)
    last,        \* the last call on the collection: [op, ret, exc]
    oneshot,     \* the outcome of compute_metrics, while it is the latest call
    nupd,        \* history: update calls since construction or the last reset
    nrows,       \* history: rows fanned out by update since the last reset
    nseen,       \* history: per member, the update calls it accumulated
    cleared,     \* history: rows the last reset discarded (-1: never reset)
    logging,     \* history: whether fed is kept
    fed          \* history: the batches update fanned out since the last reset

vars ==
    <<collection, built, config, seterr, last, oneshot, nupd, nrows, nseen,
      cleared, logging, fed>>

NoOneShot == [done |-> FALSE, batch |-> <<>>, ret |-> NoDict, exc |-> NoExc]

Config(metric_threshold, monitor_metrics, num_classes, multiclass) ==
    [metric_threshold |-> metric_threshold, monitor_metrics |-> monitor_metrics,
     num_classes |-> num_classes, multiclass |-> multiclass]

\* Before get_metrics is called; numpy starts with the errors on 'warn'.
Init ==
    /\ collection = EmptyDict
    /\ built = FALSE
    /\ config = Config(0, <<>>, 0, FALSE)
    /\ seterr = "warn"
    /\ last = [op |-> "none", ret |-> NoDict, exc |-> NoExc]
    /\ oneshot = NoOneShot
    /\ nupd = 0
    /\ nrows = 0
    /\ nseen = <<>>
    /\ cleared = -1
    /\ logging = FALSE
    /\ fed = <<>>

\* The place of name among the keys of the collection.
KeyIndex(name) == CHOOSE i \in 1 .. Len(collection.keys) : collection.keys[i] = name

\* metrics = get_metrics(metric_threshold, monitor_metrics, num_classes, multiclass)
GetMetrics(metric_threshold, monitor_metrics, num_classes, multiclass) ==
    /\ ~built
    /\ \E r \in {get_metrics(metric_threshold, monitor_metrics, num_classes, multiclass)} :
           /\ collection' = r.ret
           /\ built' = (r.exc = NoExc)
           /\ last' = [op |-> "get_metrics", ret |-> NoDict, exc |-> r.exc]
           /\ nseen' = [name \in DOMAIN r.ret.metrics |-> 0]
    /\ config' = Config(metric_threshold, monitor_metrics, num_classes, multiclass)
    /\ oneshot' = NoOneShot
    /\ UNCHANGED <<seterr, nupd, nrows, cleared, logging, fed>>

\* metrics.update(preds, target)
Update(batch) ==
    /\ built
    /\ nupd < MaxUpdates
    /\ nrows + batch.preds.nrow <= MaxRows
    /\ \E r \in {MetricCollection_update(collection, batch.preds, batch.target)},
          fanned \in {shape(batch.preds) = shape(batch.target)} :
           /\ collection' = r.self
           /\ last' = [op |-> "update", ret |-> NoDict, exc |-> r.exc]
           /\ nrows' = IF fanned THEN nrows + batch.preds.nrow ELSE nrows
           /\ fed' = IF fanned /\ logging THEN Append(fed, batch) ELSE fed
           /\ nseen' = [name \in DOMAIN nseen |->
                           IF KeyIndex(name) <= r.done
                           THEN nseen[name] + 1 ELSE nseen[name]]
    /\ nupd' = nupd + 1
    /\ oneshot' = NoOneShot
    /\ UNCHANGED <<built, config, seterr, cleared, logging>>

\* metrics.compute()
Compute ==
    /\ built
    /\ \E r \in {MetricCollection_compute(collection, seterr)} :
           /\ collection' = r.self
           /\ last' = [op |-> "compute", ret |-> r.ret, exc |-> r.exc]
           /\ seterr' = r.seterr
    /\ oneshot' = NoOneShot
    /\ UNCHANGED <<built, config, nupd, nrows, nseen, cleared, logging, fed>>

\* metrics.reset()
Reset ==
    /\ built
    /\ \E r \in {MetricCollection_reset(collection)} :
           /\ collection' = r.self
           /\ last' = [op |-> "reset", ret |-> NoDict, exc |-> r.exc]
    /\ cleared' = nrows
    /\ nupd' = 0
    /\ nrows' = 0
    /\ nseen' = [name \in DOMAIN nseen |-> 0]
    /\ fed' = <<>>
    /\ oneshot' = NoOneShot
    /\ UNCHANGED <<built, config, seterr, logging>>

\* compute_metrics(preds, target, metric_threshold, monitor_metrics, multiclass)
\* on the batch that was streamed, with the collection's own configuration.
ComputeMetrics(batch) ==
    /\ fed = <<batch>>
    /\ ~oneshot.done
    /\ \E r \in {compute_metrics(batch.preds, batch.target, config.metric_threshold,
                                config.monitor_metrics, config.multiclass, seterr)} :
           /\ oneshot' = [done |-> TRUE, batch |-> batch, ret |-> r.ret, exc |-> r.exc]
           /\ seterr' = r.seterr
    /\ UNCHANGED <<collection, built, config, last, nupd, nrows, nseen, cleared,
                   logging, fed>>

\* The life of one collection, from get_metrics on, over every list of names.
Next ==
    \/ \E metric_threshold \in Thresholds, monitor_metrics \in MonitorLists,
          multiclass \in BOOLEAN :
          GetMetrics(metric_threshold, monitor_metrics, NumCols, multiclass)
    \/ \E batch \in Batches \cup MismatchedBatches : Update(batch)
    \/ Compute
    \/ Reset

Spec == Init /\ [][Next]_vars

\* A collection of all five kinds of accumulator, just built, whose batches
\* are logged.
InitHist ==
    \E metric_threshold \in Thresholds, multiclass \in BOOLEAN :
        \E monitor_metrics \in
               {<<P_3, RP_2, s_Macro_F1, s_Micro_F1, s_Another_Macro_F1>>} :
        \E r \in {get_metrics(metric_threshold, monitor_metrics, NumCols, multiclass)} :
            /\ collection = r.ret
            /\ built = TRUE
            /\ config = Config(metric_threshold, monitor_metrics, NumCols, multiclass)
            /\ seterr = "warn"
            /\ last = [op |-> "get_metrics", ret |-> NoDict, exc |-> r.exc]
            /\ oneshot = NoOneShot
            /\ nupd = 0
            /\ nrows = 0
            /\ nseen = [name \in DOMAIN r.ret.metrics |-> 0]
            /\ cleared = -1
            /\ logging = TRUE
            /\ fed = <<>>

NextHist ==
    \/ \E batch \in Batches : Update(batch)
    \/ Compute
    \/ \E batch \in Batches : ComputeMetrics(batch)

SpecHist == InitHist /\ [][NextHist]_vars

(* ---------------------------- one accumulator --------------------- *)

\* Rows of a batch fed to a single accumulator, as <<decision values,
\* labels>>: scores above, at and below the threshold 1, no label, one
\* label, every label, and ties only between columns of the same label.
RowPairs ==
    { << <<2, 1, 0>>, <<1, 0, 0>> >>,
      << <<2, 1, 0>>, <<0, 1, 1>> >>,
      << <<2, 2, 2>>, <<1, 1, 1>> >>,
      << <<0, 0, 1>>, <<0, 0, 0>> >>,
      << <<0, 2, 2>>, <<0, 1, 1>> >>,
      << <<0, 0, 1>>, <<1, 1, 1>> >> }

\* The batches of 1 to MaxRows such rows.
PairBatches ==
    UNION {{[preds  |-> Matrix([i \in 1 .. r |-> rows[i][1]], NumCols),
             target |-> Matrix([i \in 1 .. r |-> rows[i][2]], NumCols)] :
                rows \in [1 .. r -> RowPairs]} :
           r \in 1 .. MaxRows}

\* The configurations of a collection of one accumulator: each P@k and RP@k
\* that fits the columns, each F1 average with and without multiclass, all
\* with metric_threshold 1.
AccConfigs ==
    {Config(1, <<name>>, NumCols, FALSE) : name \in {P_1, P_2, P_3, RP_1, RP_2, RP_3}}
    \cup {Config(1, <<name>>, NumCols, multiclass) :
              name \in {s_Macro_F1, s_Micro_F1, s_Another_Macro_F1},
              multiclass \in BOOLEAN}

\* A collection of one accumulator, just built, whose batches are logged.
InitAcc ==
    \E cfg \in AccConfigs :
        \E r \in {get_metrics(cfg.metric_threshold, cfg.monitor_metrics,
                              cfg.num_classes, cfg.multiclass)} :
            /\ collection = r.ret
            /\ built = TRUE
            /\ config = cfg
            /\ seterr = "warn"
            /\ last = [op |-> "get_metrics", ret |-> NoDict, exc |-> r.exc]
            /\ oneshot = NoOneShot
            /\ nupd = 0
            /\ nrows = 0
            /\ nseen = [name \in DOMAIN r.ret.metrics |-> 0]
            /\ cleared = -1
            /\ logging = TRUE
            /\ fed = <<>>

NextAcc ==
    \/ \E batch \in PairBatches : Update(batch)
    \/ Compute
    \/ Reset

SpecAcc == InitAcc /\ [][NextAcc]_vars

(* ---------------------------- claims ---------------------------------- *)

\* np.concatenate((a, b)): the rows of a, then the rows of b.
vstack(a, b) == Matrix(a.a \o b.a, a.ncol)

\* A collection freshly built with the configuration of the current one.
Fresh ==
    get_metrics(config.metric_threshold, config.monitor_metrics,
                config.num_classes, config.multiclass).ret

\* A fresh collection after one update with the two logged batches as one.
C1_whole ==
    MetricCollection_update(Fresh, vstack(fed[1].preds, fed[2].preds),
                            vstack(fed[1].target, fed[2].target)).self

\* C1: for Precision, RPrecision and F1 (macro, micro, another-macro), update
\* on the two row-wise halves of a batch, in order, on a fresh accumulator
\* leaves the same compute() result as one update with the whole batch.
C1_split_equals_whole ==
    Len(fed) = 2 =>
        \A name \in DOMAIN collection.metrics :
            LET split == Metric_compute(collection.metrics[name], seterr)
                whole == Metric_compute(C1_whole.metrics[name], seterr)
            IN  split.ret = whole.ret /\ split.exc = whole.exc

\* C2: after any sequence of update calls, reset() leaves every accumulator
\* of the collection in the state of a freshly constructed one, so that the
\* update calls replayed after it compute what they compute on a fresh
\* collection.
C2_reset_restores_initial_state ==
    last.op = "reset" => collection = Fresh

\* A reset that discarded accumulated rows.
C2_reset_after_updates == last.op = "reset" /\ cleared > 0

\* C3: compute() leaves score, num_sample, tp, fp and fn of every accumulator
\* as they were, and a compute() right after a compute() has the same outcome.
C3_compute_keeps_state ==
    [][(last'.op = "compute" /\ built) =>
          /\ collection' = collection
          /\ last.op = "compute" => (last'.ret = last.ret /\ last'.exc = last.exc)]_vars

\* A compute that returned values over accumulated rows.
C3_computed_over_rows ==
    last.op = "compute" /\ last.exc = NoExc /\ nrows > 0

\* C4: an update whose preds and target differ in shape fails with the
\* assertion and changes no counter, whether it is called on the collection
\* or on one of its accumulators.
C4_shape_mismatch_changes_nothing ==
    built =>
        \A batch \in MismatchedBatches :
            /\ LET r == MetricCollection_update(collection, batch.preds, batch.target)
               IN  r.self = collection /\ r.exc = AssertionError
            /\ \A name \in DOMAIN collection.metrics :
                   LET r == Metric_update(collection.metrics[name],
                                          batch.preds, batch.target)
                   IN  r.self = collection.metrics[name] /\ r.exc = AssertionError

\* A mismatched update was refused on a collection that holds rows.
C4_refused_on_fed_collection ==
    last.op = "update" /\ last.exc = AssertionError /\ nrows > 0

\* C5: in every reachable state every member of the collection has
\* accumulated the same update calls as every other member, also after an
\* update that failed part-way.
C5_members_accumulate_alike ==
    \A a, b \in DOMAIN nseen : nseen[a] = nseen[b]

\* A string of one or more decimal digits.
IsInt(str) == str # <<>> /\ \A i \in 1 .. Len(str) : str[i] \in Digits

\* A name exactly of the form P@<int>, RP@<int> or one of the three F1 names.
Recognized(name) ==
    \/ name \in {s_Another_Macro_F1, s_Macro_F1, s_Micro_F1}
    \/ Len(name) > 2 /\ SubSeq(name, 1, 2) = <<"P", "@">>
                     /\ IsInt(SubSeq(name, 3, Len(name)))
    \/ Len(name) > 3 /\ SubSeq(name, 1, 3) = <<"R", "P", "@">>
                     /\ IsInt(SubSeq(name, 4, Len(name)))

\* The first name of the configured list that is not recognized.
FirstUnrecognized ==
    config.monitor_metrics[
        CHOOSE i \in 1 .. Len(config.monitor_metrics) :
            /\ ~Recognized(config.monitor_metrics[i])
            /\ \A j \in 1 .. i - 1 : Recognized(config.monitor_metrics[j])]

\* C6: get_metrics on a list holding a name that is not exactly P@<int>,
\* RP@<int> or one of the three F1 names returns no collection and fails with
\* the invalid-metric error that names the whole offending string.
C6_unrecognized_name_is_rejected ==
    (\E i \in 1 .. Len(config.monitor_metrics) :
         ~Recognized(config.monitor_metrics[i])) =>
        /\ ~built
        /\ last.op = "get_metrics"
        /\ last.exc = Raise("ValueError", "invalid metric: ", FirstUnrecognized)

\* The denominator of the F1 score of the accumulator is zero.
F1_zero_denominator(metric) ==
    \A c \in 1 .. Len(metric.tp.v) :
        metric.tp.v[c] = 0 /\ metric.fp.v[c] = 0 /\ metric.fn.v[c] = 0

\* C7: F1.compute() never raises, and returns 0 when the denominators are
\* zero, in every reachable state of an F1 accumulator, a fresh or just-reset
\* one included.
C7_F1_compute_never_raises ==
    \A name \in DOMAIN collection.metrics :
        collection.metrics[name].cls = "F1" =>
            LET r == F1_compute(collection.metrics[name], seterr)
            IN  /\ r.exc = NoExc
                /\ F1_zero_denominator(collection.metrics[name]) => r.ret = Float(0)

\* C8: the floating-point error setting is, after any sequence of
\* operations, what it was before them: compute() puts it back on every exit.
C8_seterr_restored == seterr = "warn"

\* C9: compute_metrics(preds, target, ...) returns what get_metrics with
\* num_classes = the columns of preds, one update(preds, target) and one
\* compute() return.
C9_one_shot_equals_streaming ==
    (oneshot.done /\ last.op = "compute" /\ nupd = 1 /\ fed = <<oneshot.batch>>) =>
        oneshot.ret = last.ret /\ oneshot.exc = last.exc

\* Both ways were taken on a batch with rows, and returned values.
C9_both_ways_taken ==
    /\ oneshot.done /\ last.op = "compute" /\ nupd = 1 /\ fed = <<oneshot.batch>>
    /\ oneshot.batch.preds.nrow > 0
    /\ oneshot.exc = NoExc

\* The table of get_metrics: what identifies the accumulator of a name.
C10_table(name) ==
    LET f1(average) == [cls |-> "F1", average |-> average,
                        metric_threshold |-> config.metric_threshold,
                        num_classes |-> config.num_classes,
                        multiclass |-> config.multiclass]
    IN  CASE name = P_1 -> [cls |-> "Precision", top_k |-> 1]
          [] name = P_2 -> [cls |-> "Precision", top_k |-> 2]
          [] name = P_3 -> [cls |-> "Precision", top_k |-> 3]
          [] name = P_4 -> [cls |-> "Precision", top_k |-> 4]
          [] name = RP_1 -> [cls |-> "RPrecision", top_k |-> 1]
          [] name = RP_2 -> [cls |-> "RPrecision", top_k |-> 2]
          [] name = s_Another_Macro_F1 -> f1(<<"a", "n", "o", "t", "h", "e", "r", "-",
                                              "m", "a", "c", "r", "o">>)
          [] name = s_Macro_F1 -> f1(<<"m", "a", "c", "r", "o">>)
          [] name = s_Micro_F1 -> f1(<<"m", "i", "c", "r", "o">>)

\* The accumulator without its sums.
Identity(metric) ==
    [field \in DOMAIN metric \ {"score", "num_sample", "tp", "fp", "fn"} |->
        metric[field]]

\* The names of the configured list.
Names == {config.monitor_metrics[i] : i \in 1 .. Len(config.monitor_metrics)}

\* C10: for a list of recognized names get_metrics builds, for each name, the
\* accumulator of the table, and compute() of the collection returns one
\* entry per name.
C10_get_metrics_builds_the_table ==
    (last.op # "none" /\ \A name \in Names : Recognized(name)) =>
        /\ built
        /\ DOMAIN collection.metrics = Names
        /\ \A name \in Names : Identity(collection.metrics[name]) = C10_table(name)
        /\ (last.op = "compute" /\ last.exc = NoExc) => DOMAIN last.ret.val = Names

\* compute() returned the values of a collection of all five kinds.
C10_five_kinds_computed ==
    /\ last.op = "compute" /\ last.exc = NoExc
    /\ config.monitor_metrics =
           <<P_3, RP_2, s_Macro_F1, s_Micro_F1, s_Another_Macro_F1>>

(* ---------------------------- claims on one accumulator --------------- *)

\* The accumulator of a collection of one.
acc == collection.metrics[config.monitor_metrics[1]]

\* The rows logged since construction or the last reset, as <<batch, row>>.
FedPos ==
    {p \in (1 .. Len(fed)) \X (1 .. MaxRows) : p[2] <= fed[p[1]].preds.nrow}

PRow(p) == fed[p[1]].preds.a[p[2]]

TRow(p) == fed[p[1]].target.a[p[2]]

\* The sets of k columns none of which scores below a column left out.
TopSets(prow, k) ==
    {S \in SUBSET (1 .. Len(prow)) :
        /\ Cardinality(S) = k
        /\ \A j \in S : \A i \in (1 .. Len(prow)) \ S : prow[j] >= prow[i]}

\* The number of true labels among the top k columns of a row: the same for
\* every choice among tied columns, in the rows fed.
Hits(prow, trow, k) ==
    CHOOSE h \in 0 .. k :
        \A S \in TopSets(prow, k) : Cardinality({j \in S : trow[j] = 1}) = h

NumLabels(trow) == Cardinality({j \in 1 .. Len(trow) : trow[j] = 1})

\* x + y and x <= y on exact rationals.
QAdd(x, y) == Rat(x.n * y.d + y.n * x.d, x.d * y.d)

QLeq(x, y) == x.n * y.d <= y.n * x.d

\* The term of one row in the R-precision sum: hits over min(k, labels), and
\* 0 for a row without labels.
C11_row(prow, trow, k) ==
    IF NumLabels(trow) = 0 THEN Float(0)
    ELSE Rat(Hits(prow, trow, k),
             IF k <= NumLabels(trow) THEN k ELSE NumLabels(trow))

RECURSIVE C11_rows(_, _, _)
C11_rows(b, i, k) ==
    IF i = 0 THEN Float(0)
    ELSE QAdd(C11_rows(b, i - 1, k),
              C11_row(fed[b].preds.a[i], fed[b].target.a[i], k))

RECURSIVE C11_score(_, _)
C11_score(b, k) ==
    IF b = 0 THEN Float(0)
    ELSE QAdd(C11_score(b - 1, k), C11_rows(b, fed[b].preds.nrow, k))

\* C11: RPrecision.update adds, for each row, the true labels among the
\* row's top_k columns over min(top_k, true labels of the row), and 0 for a
\* row without labels; once rows are accumulated compute() is a finite number.
C11_rprecision_row_terms ==
    acc.cls = "RPrecision" =>
        /\ acc.score.v = C11_score(Len(fed), acc.top_k)
        /\ nrows > 0 =>
              LET r == RPrecision_compute(acc)
              IN  r.exc = NoExc /\ IsFinite(r.ret)
        /\ (last.op = "compute" /\ nrows > 0) =>
              last.exc = NoExc /\ IsFinite(last.ret.val[config.monitor_metrics[1]])

\* compute() returned over rows of which one has no label and one has fewer
\* labels than top_k.
C11_computed_over_unlabelled_row ==
    /\ acc.cls = "RPrecision" /\ last.op = "compute"
    /\ \E p \in FedPos : NumLabels(TRow(p)) = 0
    /\ \E p \in FedPos : NumLabels(TRow(p)) > 0 /\ NumLabels(TRow(p)) < acc.top_k

\* The hits of all the rows of batch b.
BatchHits(b, k) ==
    SumSeq([i \in 1 .. fed[b].preds.nrow |->
               Hits(fed[b].preds.a[i], fed[b].target.a[i], k)])

\* The float sum, over the updates in order, of the hits of the batch
\* divided by top_k.
RECURSIVE C15_score(_, _)
C15_score(b, k) ==
    IF b = 0 THEN Float(0)
    ELSE FAdd(C15_score(b - 1, k), FDiv(Float(BatchHits(b, k)), Float(k)))

\* C15: after a non-empty sequence of Precision.update calls, score is the
\* sum over the updates of (true labels among the top_k columns of all rows
\* of the batch) / top_k, num_sample is the number of rows, and compute()
\* returns score / num_sample.
C15_precision_batch_sum ==
    (acc.cls = "Precision" /\ fed # <<>>) =>
        /\ acc.score.v = C15_score(Len(fed), acc.top_k)
        /\ acc.num_sample = Cardinality(FedPos)
        /\ last.op = "compute" =>
              /\ last.exc = NoExc
              /\ last.ret.val[config.monitor_metrics[1]] =
                     FDiv(acc.score.v, Float(acc.num_sample))

\* compute() returned after two updates that both scored hits.
C15_computed_over_two_batches ==
    /\ acc.cls = "Precision" /\ last.op = "compute"
    /\ Len(fed) = 2
    /\ \A b \in 1 .. 2 : BatchHits(b, acc.top_k) > 0

\* C17: compute() on an RPrecision or Precision that holds no sample (never
\* updated, just reset, or updated with batches of no row only) raises the
\* division error or returns NaN, never a finite number.
C17_empty_compute_not_finite ==
    \A name \in DOMAIN collection.metrics :
        LET metric == collection.metrics[name]
        IN  (metric.cls \in {"RPrecision", "Precision"} /\ metric.num_sample = 0) =>
                /\ LET r == Metric_compute(metric, seterr)
                   IN  \/ r.exc = ZeroDivisionError
                       \/ r.exc = NoExc /\ IsNaN(r.ret)
                /\ (last.op = "compute" /\ last.exc = NoExc) =>
                       IsNaN(last.ret.val[name])

\* compute() returned for accumulators that were fed batches of no row only.
C17_computed_after_empty_batches ==
    /\ last.op = "compute" /\ last.exc = NoExc
    /\ nupd > 0 /\ nrows = 0
    /\ \E name \in DOMAIN collection.metrics :
           /\ collection.metrics[name].cls \in {"RPrecision", "Precision"}
           /\ collection.metrics[name].num_sample = 0

\* C18: for 0/1 labels and 1 <= top_k <= columns, every row's R-precision
\* term lies in [0, 1], 0 <= score <= num_sample holds in every state of
\* RPrecision and of Precision, and compute() over at least one row lies in
\* [0, 1].
C18_score_within_samples ==
    acc.cls \in {"RPrecision", "Precision"} =>
        /\ \A p \in FedPos :
               LET term == RPrecision_row(PRow(p), TRow(p), acc.top_k)
               IN  IsFinite(term) /\ QLeq(Float(0), term) /\ QLeq(term, Float(1))
        /\ IsFinite(acc.score.v)
        /\ QLeq(Float(0), acc.score.v)
        /\ QLeq(acc.score.v, Float(acc.num_sample))
        /\ nrows > 0 =>
              LET r == Metric_compute(acc, seterr)
              IN  /\ r.exc = NoExc /\ IsFinite(r.ret)
                  /\ QLeq(Float(0), r.ret) /\ QLeq(r.ret, Float(1))

\* compute() returned for an accumulator at the upper bound: two updates,
\* every row of which scored 1.
C18_upper_bound_met ==
    /\ acc.cls \in {"RPrecision", "Precision"}
    /\ last.op = "compute"
    /\ Len(fed) = 2
    /\ acc.score.v = Float(acc.num_sample)

(* ---------------------------- claims on the F1 counters --------------- *)

\* The entry of class c in a counter: a counter never updated is the int 0.
Cnt(counter, c) == IF counter.ty = "int" THEN counter.v[1] ELSE counter.v[c]

\* The logged rows of label t at column c whose score at c is (p = 1), or is
\* not (p = 0), above the threshold.
Counted(c, t, p) ==
    Cardinality({q \in FedPos :
                    /\ TRow(q)[c] = t
                    /\ (PRow(q)[c] > config.metric_threshold) = (p = 1)})

\* C13: without multiclass, after any sequence of F1.update calls since
\* construction or the last reset, tp[c], fp[c] and fn[c] are the numbers of
\* accumulated rows with (label 1, score > threshold), (label 0, score >
\* threshold) and (label 1, score <= threshold) at column c; a score equal
\* to the threshold counts as negative.
C13_counters_count_rows ==
    (acc.cls = "F1" /\ ~acc.multiclass) =>
        \A c \in Cols :
            /\ Cnt(acc.tp, c) = Counted(c, 1, 1)
            /\ Cnt(acc.fp, c) = Counted(c, 0, 1)
            /\ Cnt(acc.fn, c) = Counted(c, 1, 0)

\* Counters updated after a reset that followed updates, over a row with a
\* label whose score equals the threshold.
C13_threshold_score_counted ==
    /\ acc.cls = "F1" /\ ~acc.multiclass
    /\ cleared > 0 /\ last.op = "update"
    /\ \E q \in FedPos : \E c \in Cols :
           TRow(q)[c] = 1 /\ PRow(q)[c] = config.metric_threshold

\* C16: with multiclass, F1.update marks exactly one column of every row,
\* a column of the row's greatest score whatever the threshold, so that the
\* sum over the classes of tp[c] + fp[c] is the number of accumulated rows.
C16_multiclass_marks_one_column ==
    (acc.cls = "F1" /\ acc.multiclass) =>
        /\ \A q \in FedPos :
              /\ Cardinality({c \in Cols : F1_binarize(acc, PRow(q), c) = 1}) = 1
              /\ \A c \in Cols :
                     F1_binarize(acc, PRow(q), c) = 1 =>
                         \A j \in Cols : PRow(q)[j] <= PRow(q)[c]
        /\ SumSeq([c \in Cols |-> Cnt(acc.tp, c) + Cnt(acc.fp, c)]) = Cardinality(FedPos)

\* Multiclass counters over two rows: one with no score above the threshold,
\* one with several columns at the greatest score.
C16_tied_and_low_rows_counted ==
    /\ acc.cls = "F1" /\ acc.multiclass
    /\ last.op = "update"
    /\ \E q \in FedPos : \A c \in Cols : PRow(q)[c] <= config.metric_threshold
    /\ \E q \in FedPos :
           Cardinality({c \in Cols : \A j \in Cols : PRow(q)[j] <= PRow(q)[c]}) > 1

\* The float sum of a sequence, left to right.
RECURSIVE FSum(_, _)
FSum(xs, i) == IF i = 0 THEN Float(0) ELSE FAdd(FSum(xs, i - 1), xs[i])

\* n / d of a class, taken as 0 where d = 0.
Ratio(n, d) == IF d = 0 THEN Float(0) ELSE FDiv(Float(n), Float(d))

\* sum_c 2 tp / (2 tp + fp + fn) over the configured number of classes.
MacroOf(self) ==
    FDiv(FSum([c \in Cols |->
                  Ratio(2 * Cnt(self.tp, c),
                        2 * Cnt(self.tp, c) + Cnt(self.fp, c) + Cnt(self.fn, c))],
              NumCols),
         Float(self.num_classes))

\* Every binarized prediction of the logged rows equals its label.
ExactMatch ==
    \A q \in FedPos : \A c \in Cols : F1_binarize(acc, PRow(q), c) = TRow(q)[c]

\* What C12 states of an accumulator in its present state.
C12_holds ==
    LET r == F1_compute(acc, seterr)
    IN  /\ acc.average = s_macro =>
              /\ r.exc = NoExc /\ r.ret = MacroOf(acc)
              /\ ExactMatch =>
                    ((r.exc = NoExc /\ r.ret = Float(1))
                        <=> \A c \in Cols : \E q \in FedPos : TRow(q)[c] = 1)
        /\ (acc.average = s_micro /\ ExactMatch
                /\ \E q \in FedPos : \E c \in Cols : TRow(q)[c] = 1) =>
              r.exc = NoExc /\ r.ret = Float(1)

\* C12: Macro F1.compute() is sum_c 2 tp[c] / (2 tp[c] + fp[c] + fn[c]), a
\* class of zero denominator counting 0, over the configured num_classes;
\* where the binarized predictions equal the labels, Macro-F1 is 1.0 exactly
\* when every class has a positive label and Micro-F1 is 1.0 as soon as any
\* label is positive.
C12_macro_f1_formula ==
    (acc.cls = "F1" /\ acc.average \in {s_macro, s_micro}) => C12_holds

\* The same statement of the accumulators updated at least once.
C12_macro_f1_formula_once_updated ==
    (acc.cls = "F1" /\ acc.average \in {s_macro, s_micro} /\ acc.tp.ty = "ndarray")
        => C12_holds

\* Macro precision and macro recall, undefined terms counting 0.
MacroPrecOf(self) ==
    FDiv(FSum([c \in Cols |->
                  Ratio(Cnt(self.tp, c), Cnt(self.tp, c) + Cnt(self.fp, c))],
              NumCols),
         Float(self.num_classes))

MacroRecallOf(self) ==
    FDiv(FSum([c \in Cols |->
                  Ratio(Cnt(self.tp, c), Cnt(self.tp, c) + Cnt(self.fn, c))],
              NumCols),
         Float(self.num_classes))

\* 2 P R / (P + R), and 0 where P + R = 0.
AnotherMacroOf(self) ==
    LET P == MacroPrecOf(self)
        R == MacroRecallOf(self)
    IN  IF FAdd(P, R) = Float(0) THEN Float(0)
        ELSE FDiv(FMul(Float(2), FMul(P, R)), FAdd(P, R))

\* What C14 states of an accumulator in its present state.
C14_holds ==
    LET r == F1_compute(acc, seterr)
    IN  r.exc = NoExc /\ r.ret = AnotherMacroOf(acc)

\* C14: Another-macro F1.compute() is 2 P R / (P + R) with P the sum over the
\* classes of tp / (tp + fp) over num_classes and R the sum of tp / (tp + fn)
\* over num_classes, undefined terms counting 0, and is 0 where P + R = 0.
C14_another_macro_formula ==
    (acc.cls = "F1" /\ acc.average = s_another_macro) => C14_holds

\* The same statement of the accumulators updated at least once.
C14_another_macro_formula_once_updated ==
    (acc.cls = "F1" /\ acc.average = s_another_macro /\ acc.tp.ty = "ndarray")
        => C14_holds

\* What C14 denies, that Another-macro F1 is the mean of the per-class F1:
\* it is not, in the states where precision and recall differ by class.
C14_is_mean_of_class_F1 ==
    (acc.cls = "F1" /\ acc.average = s_another_macro /\ acc.tp.ty = "ndarray")
        => F1_compute(acc, seterr).ret = MacroOf(acc)

====
